---- MODULE Spec2Model ----
(***************************************************************************)
(* super-chat: the room session of the chat client.                        *)
(*                                                                         *)
(* ChatBox (src/src/components/ChatBox.tsx, the revision that starts at    *)
(* line 218) owns the message log, the reply target and the socket; its    *)
(* socket handlers turn inbound events into state changes.  MessageInput   *)
(* (src/src/components/MessageInput.tsx, the revision that starts at line  *)
(* 229) owns the composer.  reactToMessage exists only in the first        *)
(* revision of ChatBox (lines 86-90) and is modelled from there.           *)
(*                                                                         *)
(* socket.emit is modelled by `emitted`: the sequence of emit calls made   *)
(* by the handler that ran last.  `lastOp`, `snapshot`, `arrived`,         *)
(* `processed` and `peerProcessed` are history variables; they record      *)
(* what the environment delivered and are read by no handler.              *)
(*                                                                         *)
(* `sockets` holds the sockets the socket effect has created, with the     *)
(* state the socket.io manager keeps for each (status, reconnection        *)
(* attempts made); `xhrs` holds the upload requests sent and `objectUrls`  *)
(* counts the revocations of every preview URL created.  `typingAt`,       *)
(* `lastTypingAt`, `typingPayload`, `userListPayload` and `file` are       *)
(* history variables as well.                                              *)
(***************************************************************************)
EXTENDS Integers, Sequences, FiniteSets, Bags, TLC

VARIABLES
  \* ChatBox state
  messages,               \* useState<Message[]>([])
  replyingTo,             \* useState<Message | null>(null): {} or {msg}
  isAtBottom,             \* useState(true)
  newMessagesIndicator,   \* useState(false)
  scrollToBottomTimeout,  \* the 100 ms timer of scrollToBottom is pending
  socketRef,              \* socketRef.current: 0 is null, otherwise a socket
  lastEmit,               \* the lastEmit of the current handleTyping closure
  now,                    \* Date.now()
  \* MessageInput state
  message,                \* the text of the textarea, a sequence of characters
  imageUrl,
  videoUrl,
  error,
  previewUrl,
  previewKind,
  previewUrlRef,
  \* the channel and the history variables
  emitted,
  lastOp,
  snapshot,               \* the payload of the last recent-messages event
  arrived,                \* the receive-message payloads since then, in order
  \* a second client of the same room
  peerMessages,
  peerEmitted,
  processed,              \* bag of the message-reaction events processed since
                          \* the log was last replaced
  peerProcessed,
  \* the session: props, connection, presence
  room,                   \* the room prop of ChatBox
  mounted,                \* ChatBox is mounted
  socketConnected,        \* useState(false)
  sockets,                \* every socket io(...) has returned, in creation order
  activeUsers,            \* useState<User[]>([])
  typingUsers,            \* useState<string[]>([])
  userListPayload,        \* the payload of the last user-list event
  typingPayload,          \* the payload of the last typing event
  typingAt,               \* Date.now() when the last typing event arrived
  lastTypingAt,           \* Date.now() of the last typing emit, 0 before the first
  \* the upload of MessageInput
  uploading,              \* useState(false)
  uploadProgress,         \* useState(0)
  xhrRef,                 \* xhrRef.current: 0 is null, otherwise an index of xhrs
  xhrs,                   \* every XMLHttpRequest sent, in creation order
  objectUrls,             \* object URL -> number of revokeObjectURL calls on it
  cloudinary,             \* the two NEXT_PUBLIC_CLOUDINARY_* variables are set
  file,                   \* the file the last step called handleFile with
  \* the relay server (pages/api/socket.ts)
  serverRooms,            \* server socket -> the rooms socket.join has put it in
  delivered,              \* server socket -> the receive-message payloads sent to it
  joinedAs,               \* server socket -> the room names of its {room, userName} joins
  relayed                 \* the send-message events the server has handled

chatVars == <<messages, replyingTo, isAtBottom, newMessagesIndicator,
              scrollToBottomTimeout, socketRef, lastEmit, now>>
inputVars == <<message, imageUrl, videoUrl, error, previewUrl, previewKind,
               previewUrlRef>>
histVars == <<emitted, lastOp, snapshot, arrived>>
peerVars == <<peerMessages, peerEmitted, processed, peerProcessed>>
sessionVars == <<room, mounted, socketConnected, sockets, activeUsers,
                 typingUsers, userListPayload, typingPayload, typingAt>>
uploadVars == <<uploading, uploadProgress, xhrRef, xhrs, objectUrls, cloudinary,
                file>>
serverVars == <<serverRooms, delivered, joinedAs, relayed>>
vars == <<chatVars, inputVars, histVars, peerVars, sessionVars, lastTypingAt,
          uploadVars, serverVars>>

------------------------------------------------------------------------------
\* Bounds of the model.
MaxLog == 3        \* receive-message is processed while the log is shorter
MaxSnapshot == 2   \* longest recent-messages payload
MaxTextLen == 2    \* longest text typed into the composer
MaxEcho == 1       \* longest log of the send specification
MaxReactions == 2  \* message-reaction events a client processes on one log

\* The userName prop of ChatBox: Room sets it once, before ChatBox mounts.
userName == "bob"

\* JavaScript null and undefined.
Null == "null"
Undefined == "undefined"

\* An optional object field: absent is {}, present with value v is {v}.
None == {}
Some(v) == {v}

\* The reaction symbols and an object literal {} of counters.
Symbols == {"thumbsup", "heart"}
EmptyObject == [s \in {} |-> 0]

\* type Message.  `reactions` is optional (reactions?: Record<string, number>).
Message(id, sender, text, timestamp, replyTo, img, vid, reactions) ==
  [id |-> id, sender |-> sender, text |-> text, timestamp |-> timestamp,
   replyTo |-> replyTo, imageUrl |-> img, videoUrl |-> vid,
   reactions |-> reactions]

\* The messages the server delivers in this model: m1 carries no reactions
\* field, m2 is a reply to m1 with one reaction already counted, m3 has an
\* image and an empty reactions object.
m1 == Message("1", "bob", <<"h">>, "t1", Null, Undefined, Undefined, None)
m2 == Message("2", "amy", <<"h", "h">>, "t2", "1", Undefined, Undefined,
              Some([s \in {"thumbsup"} |-> 1]))
m3 == Message("3", "amy", <<>>, "t3", Null, "img.url", Undefined,
              Some(EmptyObject))
ServerMessages == {m1, m2, m3}
\* The message ids that message-reaction events and react calls name.
ReactionIds == {"1", "2"}

\* Sequences of at most n elements of S.
SeqUpTo(S, n) == UNION {[1..k -> S] : k \in 0..n}

\* A recent-messages payload: the server's stored messages, each id once.
Snapshots ==
  {S \in SeqUpTo(ServerMessages, MaxSnapshot) :
     \A i, j \in 1..Len(S) : S[i].id = S[j].id => i = j}

------------------------------------------------------------------------------
\* The message log (ChatBox socket handlers).

\* msg.reactions?.[reaction] || 0
Count(msg, reaction) ==
  IF \E r \in msg.reactions : reaction \in DOMAIN r /\ r[reaction] # 0
  THEN (CHOOSE r \in msg.reactions : TRUE)[reaction]
  ELSE 0

\* { ...msg.reactions, [reaction]: n }
SpreadWith(reactions, reaction, n) ==
  LET old == IF reactions = None THEN EmptyObject
             ELSE CHOOSE r \in reactions : TRUE
  IN  [s \in DOMAIN old \cup {reaction} |-> IF s = reaction THEN n ELSE old[s]]

\* A replay merged into the log instead of replacing it.
OnRecentMessagesMerge(prev, msgs) == prev \o msgs

\* setMessages(msgs)
OnRecentMessages(prev, msgs) == msgs

\* An append that skips a message whose id is already in the log.
OnReceiveMessageDedup(prev, msg) ==
  IF \E i \in 1..Len(prev) : prev[i].id = msg.id
  THEN prev
  ELSE Append(prev, [msg EXCEPT !.reactions = Some(EmptyObject)])

\* setMessages((prev) => [...prev, { ...msg, reactions: {} }])
OnReceiveMessage(prev, msg) ==
  Append(prev, [msg EXCEPT !.reactions = Some(EmptyObject)])

\* An update that inserts a placeholder when no message has the id.
OnMessageReactionUpsert(prev, messageId, reaction) ==
  IF \E i \in 1..Len(prev) : prev[i].id = messageId
  THEN [i \in 1..Len(prev) |->
          IF prev[i].id = messageId
          THEN [prev[i] EXCEPT !.reactions =
                  Some(SpreadWith(prev[i].reactions, reaction,
                                  Count(prev[i], reaction) + 1))]
          ELSE prev[i]]
  ELSE Append(prev, Message(messageId, Undefined, <<>>, Undefined, Null,
                            Undefined, Undefined,
                            Some([s \in {reaction} |-> 1])))

\* An update that toggles: a symbol already counted is taken back.
OnMessageReactionToggle(prev, messageId, reaction) ==
  [i \in 1..Len(prev) |->
     IF prev[i].id = messageId
     THEN [prev[i] EXCEPT !.reactions =
             Some(SpreadWith(prev[i].reactions, reaction,
                             IF Count(prev[i], reaction) > 0
                             THEN Count(prev[i], reaction) - 1
                             ELSE 1))]
     ELSE prev[i]]

\* An update that forgets the spread of the other counters.
OnMessageReactionNoSpread(prev, messageId, reaction) ==
  [i \in 1..Len(prev) |->
     IF prev[i].id = messageId
     THEN [prev[i] EXCEPT !.reactions =
             Some([s \in {reaction} |-> Count(prev[i], reaction) + 1])]
     ELSE prev[i]]

\* An update that rebuilds the matched message without its reply reference.
OnMessageReactionDropsReply(prev, messageId, reaction) ==
  [i \in 1..Len(prev) |->
     IF prev[i].id = messageId
     THEN [prev[i] EXCEPT !.replyTo = Null,
                          !.reactions =
             Some(SpreadWith(prev[i].reactions, reaction,
                             Count(prev[i], reaction) + 1))]
     ELSE prev[i]]

\* setMessages((prev) => prev.map((msg) => msg.id === messageId ? {...} : msg))
OnMessageReaction(prev, messageId, reaction) ==
  [i \in 1..Len(prev) |->
     IF prev[i].id = messageId
     THEN [prev[i] EXCEPT !.reactions =
             Some(SpreadWith(prev[i].reactions, reaction,
                             Count(prev[i], reaction) + 1))]
     ELSE prev[i]]

\* useEffect(() => { if (isAtBottom) scrollToBottom(); }, [messages, isAtBottom])
\* after a render in which messages changed: scrollToBottom re-arms its timer.
AfterMessagesChange ==
  scrollToBottomTimeout' = IF isAtBottom THEN TRUE ELSE scrollToBottomTimeout

\* A render of ChatBox evaluates the handleTyping IIFE again: let lastEmit = 0.
Rerender == lastEmit' = 0

\* socket.on("recent-messages", (msgs) => setMessages(msgs))
RecentMessages(msgs) ==
  /\ messages' = OnRecentMessages(messages, msgs)
  /\ AfterMessagesChange
  /\ Rerender
  /\ emitted' = <<>>
  /\ lastOp' = [op |-> "recent-messages", id |-> Null, sym |-> Null]
  /\ snapshot' = msgs
  /\ arrived' = <<>>
  /\ processed' = EmptyBag
  /\ UNCHANGED <<replyingTo, isAtBottom, newMessagesIndicator, socketRef, now>>
  /\ UNCHANGED <<inputVars, peerMessages, peerProcessed>>
  /\ peerEmitted' = <<>>
  /\ UNCHANGED <<sessionVars, lastTypingAt, uploadVars, serverVars>>

\* A handler that raises the flag for every message.
IndicatorOnReceiveAlways(flag, atBottom) == TRUE

\* if (!isAtBottom) setNewMessagesIndicator(true)
IndicatorOnReceive(flag, atBottom) == IF ~atBottom THEN TRUE ELSE flag

\* socket.on("receive-message", (msg) => { setMessages(...); if (!isAtBottom) ... })
\* The handler reads the isAtBottom of the render whose effect registered it.
ReceiveMessage(msg) ==
  /\ Len(messages) < MaxLog
  /\ messages' = OnReceiveMessage(messages, msg)
  /\ newMessagesIndicator' =
       IndicatorOnReceive(newMessagesIndicator, sockets[socketRef].atBottom)
  /\ AfterMessagesChange
  /\ Rerender
  /\ emitted' = <<>>
  /\ lastOp' = [op |-> "receive-message", id |-> msg.id, sym |-> Null]
  /\ arrived' = Append(arrived, msg)
  /\ UNCHANGED <<replyingTo, isAtBottom, socketRef, now, snapshot>>
  /\ UNCHANGED <<inputVars, peerMessages, processed, peerProcessed>>
  /\ peerEmitted' = <<>>
  /\ UNCHANGED <<sessionVars, lastTypingAt, uploadVars, serverVars>>

\* socket.on("message-reaction", (payload) => setMessages(prev => prev.map(...)))
MessageReaction(messageId, reaction) ==
  /\ BagCardinality(processed) < MaxReactions
  /\ messages' = OnMessageReaction(messages, messageId, reaction)
  /\ processed' = processed (+) SetToBag({<<messageId, reaction>>})
  /\ AfterMessagesChange
  /\ Rerender
  /\ emitted' = <<>>
  /\ lastOp' = [op |-> "message-reaction", id |-> messageId, sym |-> reaction]
  /\ UNCHANGED <<replyingTo, isAtBottom, newMessagesIndicator, socketRef, now>>
  /\ UNCHANGED <<snapshot, arrived>>
  /\ UNCHANGED <<inputVars, peerMessages, peerProcessed>>
  /\ peerEmitted' = <<>>
  /\ UNCHANGED <<sessionVars, lastTypingAt, uploadVars, serverVars>>

\* A react that counts its own reaction at once.
ReactOptimistic(prev, messageId, reaction) ==
  [i \in 1..Len(prev) |->
     IF prev[i].id = messageId
     THEN [prev[i] EXCEPT !.reactions =
             Some(SpreadWith(prev[i].reactions, reaction,
                             Count(prev[i], reaction) + 1))]
     ELSE prev[i]]

\* The local effect of reactToMessage on the log: none.
ReactLocally(prev, messageId, reaction) == prev

\* const reactToMessage = (messageId, reaction) => { ... socket.emit(...) }
reactToMessage(messageId, reaction) ==
  /\ messages' = ReactLocally(messages, messageId, reaction)
  /\ emitted' = IF socketRef = 0 THEN <<>>
                ELSE <<[event |-> "react-message", room |-> room,
                        messageId |-> messageId, reaction |-> reaction]>>
  /\ lastOp' = [op |-> "reactToMessage", id |-> messageId, sym |-> reaction]
  /\ UNCHANGED <<replyingTo, isAtBottom, newMessagesIndicator,
                 scrollToBottomTimeout, socketRef, lastEmit, now>>
  /\ UNCHANGED <<snapshot, arrived>>
  /\ UNCHANGED <<inputVars, peerMessages, processed, peerProcessed>>
  /\ peerEmitted' = <<>>
  /\ UNCHANGED <<sessionVars, lastTypingAt, uploadVars, serverVars>>

------------------------------------------------------------------------------
\* The composer (MessageInput) and the outbound operations of ChatBox.

\* The characters typed in this model, and the texts of the textarea.
Chars == {" ", "h"}
Texts == SeqUpTo(Chars, MaxTextLen)

\* String.prototype.trim
RECURSIVE TrimStart(_)
TrimStart(t) == IF t # <<>> /\ Head(t) = " " THEN TrimStart(Tail(t)) ELSE t

RECURSIVE TrimEnd(_)
TrimEnd(t) ==
  IF t # <<>> /\ t[Len(t)] = " " THEN TrimEnd(SubSeq(t, 1, Len(t) - 1)) ELSE t

Trim(t) == TrimEnd(TrimStart(t))

\* Truthiness of a string | null | undefined value.
Truthy(v) == v \notin {Null, Undefined, ""}

\* v || undefined
OrUndefined(v) == IF Truthy(v) THEN v ELSE Undefined

\* replyingTo?.id || null
ReplyToId(r) ==
  IF r = None THEN Null
  ELSE LET id == (CHOOSE m \in r : TRUE).id IN IF id = "" THEN Null ELSE id

\* Date.now() when the session starts, in milliseconds.
StartTime == 2000

\* The minimum interval of handleTyping, in milliseconds.
TypingWindow == 1000

\* A debounced typing signal: the call emits nothing and only arms a timer.
handleTypingDebounced ==
  /\ emitted' = <<>>
  /\ UNCHANGED <<lastEmit, lastTypingAt>>

\* The function handleTyping returns: emit typing at most once per window.
handleTyping ==
  IF now - lastEmit > TypingWindow /\ socketRef # 0
  THEN /\ emitted' = <<[event |-> "typing", room |-> room]>>
       /\ lastEmit' = now
       /\ lastTypingAt' = now
  ELSE /\ emitted' = <<>>
       /\ UNCHANGED <<lastEmit, lastTypingAt>>

\* textarea onChange: setMessage(e.target.value); if (onTyping) onTyping().
\* Only MessageInput renders again, so the handleTyping closure is kept.
handleChange(value) ==
  /\ value # message
  /\ message' = value
  /\ handleTyping
  /\ lastOp' = [op |-> "handleChange", id |-> Null, sym |-> Null]
  /\ peerEmitted' = <<>>
  /\ UNCHANGED <<messages, replyingTo, isAtBottom, newMessagesIndicator,
                 scrollToBottomTimeout, socketRef, now>>
  /\ UNCHANGED <<imageUrl, videoUrl, error, previewUrl, previewKind,
                 previewUrlRef>>
  /\ UNCHANGED <<snapshot, arrived, peerMessages, processed, peerProcessed>>
  /\ UNCHANGED <<sessionVars, uploadVars, serverVars>>

\* if (ref) URL.revokeObjectURL(ref): one more revocation of the URL ref.
Revoke(urls, ref) ==
  IF ref = Null THEN urls ELSE [urls EXCEPT ![ref] = @ + 1]

\* A send that inserts its message before the server echoes it.
LocalEchoOptimistic(prev, text, img, vid) ==
  Append(prev, Message("local", userName, text, "t0", Null, img, vid,
                       Some(EmptyObject)))

\* A send that keeps the reply target.
ReplyKept(r) == r

\* A send condition that forgets to trim.
CanSendUntrimmed(text, img, vid) == text # <<>> \/ Truthy(img) \/ Truthy(vid)

\* What sendMessage does to the log: nothing, the message is not inserted.
LocalEcho(prev, text, img, vid) == prev

\* setReplyingTo(null) at the end of sendMessage.
ReplyAfterSend(r) == None

\* const sendMessage = (text, imageUrl?, videoUrl?) => { ... }
sendMessage(text, img, vid) ==
  IF socketRef = 0
  THEN /\ emitted' = <<>>
       /\ UNCHANGED <<messages, replyingTo, scrollToBottomTimeout, lastEmit>>
  ELSE /\ emitted' = <<[event |-> "send-message", room |-> room,
                        message |-> [text |-> text,
                                     replyTo |-> ReplyToId(replyingTo),
                                     imageUrl |-> img, videoUrl |-> vid]]>>
       /\ messages' = LocalEcho(messages, text, img, vid)
       /\ replyingTo' = ReplyAfterSend(replyingTo)
       /\ scrollToBottomTimeout' = TRUE
       /\ lastEmit' = IF replyingTo' # replyingTo \/ messages' # messages
                      THEN 0 ELSE lastEmit

\* if (message.trim() || imageUrl || videoUrl)
CanSend(text, img, vid) == Trim(text) # <<>> \/ Truthy(img) \/ Truthy(vid)

\* const handleSend = () => { if (...) { onSend(...); reset the composer } }
handleSend ==
  /\ IF CanSend(message, imageUrl, videoUrl)
     THEN /\ sendMessage(Trim(message), OrUndefined(imageUrl),
                         OrUndefined(videoUrl))
          /\ message' = <<>>
          /\ imageUrl' = Null
          /\ videoUrl' = Null
          /\ error' = Null
          /\ objectUrls' = Revoke(objectUrls, previewUrlRef)
          /\ previewUrlRef' = Null
          /\ previewUrl' = Null
          /\ previewKind' = Null
     ELSE /\ emitted' = <<>>
          /\ UNCHANGED <<messages, replyingTo, scrollToBottomTimeout, lastEmit>>
          /\ UNCHANGED <<inputVars, objectUrls>>
  /\ lastOp' = [op |-> "handleSend", id |-> Null, sym |-> Null]
  /\ peerEmitted' = <<>>
  /\ UNCHANGED <<isAtBottom, newMessagesIndicator, socketRef, now>>
  /\ UNCHANGED <<snapshot, arrived, peerMessages, processed, peerProcessed>>
  /\ UNCHANGED <<sessionVars, lastTypingAt>>
  /\ UNCHANGED <<uploading, uploadProgress, xhrRef, xhrs, cloudinary, file,
                 serverVars>>

\* const handleReply = useCallback((msg) => { setReplyingTo(msg); ... }, [])
\* (the swipe feedback, the highlight and the focus are presentation only).
handleReply(msg) ==
  /\ replyingTo' = Some(msg)
  /\ lastEmit' = IF replyingTo' # replyingTo THEN 0 ELSE lastEmit
  /\ emitted' = <<>>
  /\ lastOp' = [op |-> "handleReply", id |-> msg.id, sym |-> Null]
  /\ peerEmitted' = <<>>
  /\ UNCHANGED <<messages, isAtBottom, newMessagesIndicator,
                 scrollToBottomTimeout, socketRef, now>>
  /\ UNCHANGED <<inputVars, snapshot, arrived, peerMessages, processed,
                 peerProcessed>>
  /\ UNCHANGED <<sessionVars, lastTypingAt, uploadVars, serverVars>>

\* The Cancel button of the reply banner: onClick={() => setReplyingTo(null)};
\* the banner is rendered only while replyingTo is set.
clearReply ==
  /\ replyingTo # None
  /\ replyingTo' = None
  /\ Rerender
  /\ emitted' = <<>>
  /\ lastOp' = [op |-> "clearReply", id |-> Null, sym |-> Null]
  /\ peerEmitted' = <<>>
  /\ UNCHANGED <<messages, isAtBottom, newMessagesIndicator,
                 scrollToBottomTimeout, socketRef, now>>
  /\ UNCHANGED <<inputVars, snapshot, arrived, peerMessages, processed,
                 peerProcessed>>
  /\ UNCHANGED <<sessionVars, lastTypingAt, uploadVars, serverVars>>

------------------------------------------------------------------------------
\* A second client of the same room: the same socket handlers on its own log.

PeerMessageReaction(messageId, reaction) ==
  /\ BagCardinality(peerProcessed) < MaxReactions
  /\ peerMessages' = OnMessageReaction(peerMessages, messageId, reaction)
  /\ peerProcessed' = peerProcessed (+) SetToBag({<<messageId, reaction>>})
  /\ peerEmitted' = <<>>
  /\ emitted' = <<>>
  /\ lastOp' = [op |-> "peer-message-reaction", id |-> messageId,
                sym |-> reaction]
  /\ UNCHANGED <<chatVars, inputVars, snapshot, arrived, processed>>
  /\ UNCHANGED <<sessionVars, lastTypingAt, uploadVars, serverVars>>

PeerReactToMessage(messageId, reaction) ==
  /\ peerMessages' = ReactLocally(peerMessages, messageId, reaction)
  /\ peerEmitted' = <<[event |-> "react-message", room |-> room,
                       messageId |-> messageId, reaction |-> reaction]>>
  /\ emitted' = <<>>
  /\ lastOp' = [op |-> "peer-reactToMessage", id |-> messageId,
                sym |-> reaction]
  /\ UNCHANGED <<chatVars, inputVars, snapshot, arrived, processed,
                 peerProcessed>>
  /\ UNCHANGED <<sessionVars, lastTypingAt, uploadVars, serverVars>>

------------------------------------------------------------------------------
\* The upload of an attachment (MessageInput).

MAX_FILE_SIZE_MB == 20
MAX_VIDEO_SIZE_MB == 50
MB == 1024 * 1024

\* A MIME type "major/minor".
Mime(major, minor) == [major |-> major, minor |-> minor]

VALID_MIME_TYPES ==
  {Mime("image", m) : m \in {"jpeg", "png", "gif", "webp"}}
VALID_VIDEO_MIME_TYPES ==
  {Mime("video", m) : m \in {"mp4", "webm", "ogg", "quicktime"}}

\* A File: its MIME type and its size in bytes.
File(type, size) == [type |-> type, size |-> size]

\* The value of `file` when the last step handled no file.
NoFile == File(Mime("", ""), 0)

\* The files of this model: allowed and refused types of both kinds and of
\* neither, with sizes at, just above and far from the two ceilings.
Files ==
  {File(Mime("image", "png"), MAX_FILE_SIZE_MB * MB),
   File(Mime("image", "png"), MAX_FILE_SIZE_MB * MB + 1),
   File(Mime("image", "png"), 25 * MB),
   File(Mime("image", "bmp"), MB),
   File(Mime("application", "pdf"), MB),
   File(Mime("video", "mp4"), 25 * MB),
   File(Mime("video", "mp4"), MAX_VIDEO_SIZE_MB * MB),
   File(Mime("video", "mp4"), MAX_VIDEO_SIZE_MB * MB + 1),
   File(Mime("video", "avi"), MB)}

\* The uploads one run starts.
MaxFiles == 2

\* file.type.startsWith("video/") ? "video" : "image"
KindOf(f) == IF f.type.major = "video" THEN "video" ELSE "image"

\* A validation that forgets the size ceiling.
validateFileTypeOnly(f, kind) ==
  IF kind = "image"
  THEN IF f.type \notin VALID_MIME_TYPES THEN "Unsupported file type" ELSE Null
  ELSE IF f.type \notin VALID_VIDEO_MIME_TYPES THEN "Unsupported file type"
       ELSE Null

\* validateFile: the message it passes to setError, Null when it returns true.
validateFile(f, kind) ==
  IF kind = "image"
  THEN IF f.type \notin VALID_MIME_TYPES THEN "Unsupported file type"
       ELSE IF f.size > MAX_FILE_SIZE_MB * 1024 * 1024
            THEN "File size exceeds limit (max 20MB)"
            ELSE Null
  ELSE IF f.type \notin VALID_VIDEO_MIME_TYPES THEN "Unsupported file type"
       ELSE IF f.size > MAX_VIDEO_SIZE_MB * 1024 * 1024
            THEN "File size exceeds limit (max 50MB)"
            ELSE Null

\* URL.createObjectURL(file): a URL no earlier call has returned.
BlobUrl(urls) == "blob:" \o ToString(Cardinality(DOMAIN urls) + 1)

\* data.secure_url of the response of request i.
SecureUrl(i) == "secure:" \o ToString(i)

\* The state of the composer that the upload handlers read and write.
Composer ==
  [imageUrl |-> imageUrl, videoUrl |-> videoUrl, error |-> error,
   previewUrl |-> previewUrl, previewKind |-> previewKind,
   previewUrlRef |-> previewUrlRef, uploading |-> uploading,
   objectUrls |-> objectUrls]

\* The state updates of a handler take effect.
Install(c) ==
  /\ imageUrl' = c.imageUrl
  /\ videoUrl' = c.videoUrl
  /\ error' = c.error
  /\ previewUrl' = c.previewUrl
  /\ previewKind' = c.previewKind
  /\ previewUrlRef' = c.previewUrlRef
  /\ uploading' = c.uploading
  /\ objectUrls' = c.objectUrls

\* An error handler that revokes the preview and keeps the reference to it.
handleUploadErrorKeepsRef(c, msg) ==
  [c EXCEPT !.error = msg, !.uploading = FALSE,
            !.objectUrls = Revoke(c.objectUrls, c.previewUrlRef),
            !.previewUrl = Null, !.previewKind = Null]

\* An error handler that reports the error and leaves the preview in place.
handleUploadErrorKeepsPreview(c, msg) ==
  [c EXCEPT !.error = msg, !.uploading = FALSE]

\* const handleUploadError = (message) => { ... }
handleUploadError(c, msg) ==
  [c EXCEPT !.error = msg, !.uploading = FALSE,
            !.objectUrls = Revoke(c.objectUrls, c.previewUrlRef),
            !.previewUrlRef = Null,
            !.previewUrl = Null, !.previewKind = Null]

\* What the upload handlers leave alone.
UploadFrame ==
  /\ emitted' = <<>>
  /\ peerEmitted' = <<>>
  /\ UNCHANGED <<chatVars, message, snapshot, arrived, peerMessages, processed,
                 peerProcessed, sessionVars, lastTypingAt, cloudinary,
                 serverVars>>

\* A request as startMediaUpload sends it: its handlers close over the kind
\* and the preview of its own file; xhr.status is 0 until a response arrives.
NewXhr(kind, preview) ==
  [state |-> "sent", status |-> 0, kind |-> kind, preview |-> preview]

\* const handleFile = (file) => { ...; startMediaUpload(file, kind, preview) }
\* with startMediaUpload, which runs to the end without awaiting anything.
handleFile(f) ==
  LET kind == KindOf(f)
      err == validateFile(f, kind)
      preview == BlobUrl(objectUrls)
      shown == [Composer EXCEPT
                  !.error = Null, !.imageUrl = Null, !.videoUrl = Null,
                  !.objectUrls = Revoke(objectUrls, previewUrlRef)
                                   @@ (preview :> 0),
                  !.previewUrlRef = preview, !.previewUrl = preview,
                  !.previewKind = kind, !.uploading = TRUE]
  IN  /\ file' = f
      /\ IF err # Null
         THEN /\ Install([Composer EXCEPT !.error = err])
              /\ UNCHANGED <<uploadProgress, xhrRef, xhrs>>
         ELSE /\ Cardinality(DOMAIN objectUrls) < MaxFiles
              /\ uploadProgress' = 0
              /\ IF ~cloudinary
                 THEN /\ Install(handleUploadError(
                                   shown, "Cloudinary configuration is missing"))
                      /\ UNCHANGED <<xhrRef, xhrs>>
                 ELSE /\ Install(shown)
                      /\ xhrs' = Append(xhrs, NewXhr(kind, preview))
                      /\ xhrRef' = Len(xhrs) + 1
      /\ UploadFrame

\* <input type="file" disabled={uploading} onChange={... handleFile(file)}>
selectFile(f) ==
  /\ ~uploading
  /\ handleFile(f)
  /\ lastOp' = [op |-> "selectFile", id |-> Null, sym |-> Null]

\* const handleDrop = (e) => { ...; if (files.length > 0) handleFile(files[0]) }
handleDrop(f) ==
  /\ handleFile(f)
  /\ lastOp' = [op |-> "handleDrop", id |-> Null, sym |-> Null]

\* const handlePaste = (e) => { ... }: the first item whose type starts with
\* "image/" goes to handleFile; the textarea is disabled while uploading.
handlePaste(f) ==
  /\ ~uploading
  /\ f.type.major = "image"
  /\ handleFile(f)
  /\ lastOp' = [op |-> "handlePaste", id |-> Null, sym |-> Null]

\* The progress events of this model, in percent.
Percents == {50, 100}

\* xhr.upload.onprogress = (event) => setUploadProgress(...)
xhrProgress(i, pct) ==
  /\ xhrs[i].state = "sent"
  /\ uploadProgress' = pct
  /\ lastOp' = [op |-> "xhr.onprogress", id |-> Null, sym |-> Null]
  /\ file' = NoFile
  /\ UNCHANGED <<inputVars, uploading, xhrRef, xhrs, objectUrls>>
  /\ UploadFrame

\* The responses of the upload service: the status, and a body that is JSON
\* with a secure_url, JSON without one, or no JSON at all.
Statuses == {200, 500}
Bodies == {"json", "nourl", "html"}

\* A success branch that sets the URL of its kind and leaves the other one.
onLoadSuccessKeepsOther(c, kind, url) ==
  IF kind = "image" THEN [c EXCEPT !.imageUrl = url]
  ELSE [c EXCEPT !.videoUrl = url]

\* if (kind === "image") { setImageUrl(data.secure_url); setVideoUrl(null) }
\* else { setVideoUrl(data.secure_url); setImageUrl(null) }
onLoadSuccess(c, kind, url) ==
  IF kind = "image" THEN [c EXCEPT !.imageUrl = url, !.videoUrl = Null]
  ELSE [c EXCEPT !.videoUrl = url, !.imageUrl = Null]

\* xhr.onload = () => { if (xhr.status === 200) { ... } else { ... }
\* setUploading(false); ... }.  JSON.parse of a body that is no JSON throws
\* before any state is set.
xhrLoad(i, status, body) ==
  LET req == xhrs[i]
      url == IF body = "json" THEN SecureUrl(i) ELSE Undefined
      done == [onLoadSuccess(Composer, req.kind, url) EXCEPT
                 !.objectUrls = Revoke(objectUrls, req.preview),
                 !.previewUrlRef = IF previewUrlRef = req.preview THEN Null
                                   ELSE previewUrlRef,
                 !.previewUrl = Null, !.previewKind = Null, !.error = Null,
                 !.uploading = FALSE]
  IN  /\ req.state = "sent"
      /\ xhrs' = [xhrs EXCEPT ![i].state = "done", ![i].status = status]
      /\ IF status = 200
         THEN IF body = "html" THEN Install(Composer) ELSE Install(done)
         ELSE Install(handleUploadError(Composer, "Upload failed"))
      /\ lastOp' = [op |-> "xhr.onload", id |-> Null, sym |-> Null]
      /\ file' = NoFile
      /\ UNCHANGED <<uploadProgress, xhrRef>>
      /\ UploadFrame

\* xhr.onerror = () => { handleUploadError("Network error during upload") }
xhrError(i) ==
  /\ xhrs[i].state = "sent"
  /\ xhrs' = [xhrs EXCEPT ![i].state = "error"]
  /\ Install(handleUploadError(Composer, "Network error during upload"))
  /\ lastOp' = [op |-> "xhr.onerror", id |-> Null, sym |-> Null]
  /\ file' = NoFile
  /\ UNCHANGED <<uploadProgress, xhrRef>>
  /\ UploadFrame

\* const cancelUpload = () => { ... }: xhr.abort() on a request in flight
\* fires its onabort handler, handleUploadError("Upload aborted"), before
\* abort returns.
cancelUpload ==
  LET inFlight == xhrRef # 0 /\ xhrs[xhrRef].state = "sent"
      aborted == IF inFlight
                 THEN handleUploadError(Composer, "Upload aborted")
                 ELSE Composer
  IN  /\ xhrs' = IF inFlight THEN [xhrs EXCEPT ![xhrRef].state = "aborted"]
                 ELSE xhrs
      /\ xhrRef' = 0
      /\ Install([aborted EXCEPT
                    !.objectUrls = Revoke(aborted.objectUrls,
                                          aborted.previewUrlRef),
                    !.previewUrlRef = Null, !.previewUrl = Null,
                    !.imageUrl = Null, !.videoUrl = Null,
                    !.previewKind = Null, !.uploading = FALSE,
                    !.error = Null])
      /\ lastOp' = [op |-> "cancelUpload", id |-> Null, sym |-> Null]
      /\ file' = NoFile
      /\ UNCHANGED uploadProgress
      /\ UploadFrame

\* The cleanup MessageInput registers for its unmount: it aborts the request
\* of xhrRef.current, whose onabort handler runs handleUploadError, and
\* revokes the preview; the state updates of an unmounted component are
\* dropped, the refs and the object URLs are not.
unmountCleanup ==
  LET inFlight == xhrRef # 0 /\ xhrs[xhrRef].state = "sent"
      aborted == IF inFlight
                 THEN handleUploadError(Composer, "Upload aborted")
                 ELSE Composer
  IN  /\ xhrs' = IF inFlight THEN [xhrs EXCEPT ![xhrRef].state = "aborted"]
                 ELSE xhrs
      /\ xhrRef' = 0
      /\ objectUrls' = Revoke(aborted.objectUrls, aborted.previewUrlRef)
      /\ previewUrlRef' = Null
      /\ UNCHANGED <<message, imageUrl, videoUrl, error, previewUrl,
                     previewKind, uploading, uploadProgress, cloudinary, file,
                 serverVars>>

------------------------------------------------------------------------------
\* The connection (the socket effect of ChatBox and its cleanup).

\* The rooms the router can show, and the sockets one run creates.
Rooms == {"alpha", "beta"}
MaxSockets == 3

\* io(url, { reconnection: true, reconnectionAttempts: 5, ... })
reconnectionAttempts == 5

\* The socket io(...) returns: it is opening, no reconnection attempt has been
\* made, and its handlers close over the room of the render that created it.
\* `reconnected` records that its last connect event followed a reconnection,
\* `atBottom` the isAtBottom its handlers close over (useState(true) at mount).
NewSocket(r) ==
  [status |-> "opening", attempts |-> 0, room |-> r, reconnected |-> FALSE,
   atBottom |-> TRUE]

\* The manager attempts again while fewer than reconnectionAttempts were made;
\* here it allows one attempt too many.
MayRetryOnceMore(sock) == sock.attempts <= reconnectionAttempts

\* The manager attempts again while fewer than reconnectionAttempts were made.
MayRetry(sock) == sock.attempts < reconnectionAttempts

\* A connect handler that joins on the first connection only.
JoinOnFirstConnect(sock) ==
  IF sock.status = "opening"
  THEN <<[event |-> "join-room", room |-> sock.room, userName |-> userName]>>
  ELSE <<>>

\* socket.emit("join-room", { room, userName }) of the connect handler.
JoinOnConnect(sock) ==
  <<[event |-> "join-room", room |-> sock.room, userName |-> userName]>>

\* A state update that changed the state renders ChatBox again.
RerenderIf(changed) == lastEmit' = IF changed THEN 0 ELSE lastEmit

\* What every connection step leaves alone.
ConnFrame ==
  /\ peerEmitted' = <<>>
  /\ UNCHANGED <<messages, replyingTo, scrollToBottomTimeout, now>>
  /\ UNCHANGED <<inputVars, snapshot, arrived, peerMessages, processed,
                 peerProcessed>>
  /\ UNCHANGED <<activeUsers, typingUsers, userListPayload, typingPayload,
                 typingAt, lastTypingAt, uploadVars, serverVars>>

\* socket.on("connect", () => { setSocketConnected(true); socket.emit(...) }):
\* the transport opened, at the first attempt or at a reconnection attempt.
Connect ==
  /\ mounted
  /\ \/ sockets[socketRef].status = "opening"
     \/ sockets[socketRef].status = "reconnecting" /\ MayRetry(sockets[socketRef])
  /\ sockets' = [sockets EXCEPT ![socketRef].status = "connected",
                                ![socketRef].attempts = 0,
                                ![socketRef].reconnected =
                                  (sockets[socketRef].status = "reconnecting")]
  /\ socketConnected' = TRUE
  /\ emitted' = JoinOnConnect(sockets[socketRef])
  /\ RerenderIf(~socketConnected)
  /\ lastOp' = [op |-> "connect", id |-> Null, sym |-> Null]
  /\ UNCHANGED <<room, mounted, socketRef, isAtBottom, newMessagesIndicator>>
  /\ ConnFrame

\* The first connection attempt failed: no handler is registered for it, and
\* with reconnection: true the manager starts to reconnect.
ConnectError ==
  /\ mounted
  /\ sockets[socketRef].status = "opening"
  /\ sockets' = [sockets EXCEPT ![socketRef].status = "reconnecting"]
  /\ emitted' = <<>>
  /\ lastOp' = [op |-> "connect_error", id |-> Null, sym |-> Null]
  /\ UNCHANGED <<room, mounted, socketRef, socketConnected, isAtBottom,
                 newMessagesIndicator, lastEmit>>
  /\ ConnFrame

\* The reasons of a disconnect event the client did not ask for.
DisconnectReasons == {"transport close", "io server disconnect"}

\* socket.on("disconnect", () => setSocketConnected(false)).  The manager
\* reconnects by itself unless the server closed the socket.
Disconnect(reason) ==
  /\ mounted
  /\ sockets[socketRef].status = "connected"
  /\ sockets' = [sockets EXCEPT ![socketRef].status =
                   IF reason = "io server disconnect" THEN "disconnected"
                   ELSE "reconnecting"]
  /\ socketConnected' = FALSE
  /\ emitted' = <<>>
  /\ RerenderIf(socketConnected)
  /\ lastOp' = [op |-> "disconnect", id |-> reason, sym |-> Null]
  /\ UNCHANGED <<room, mounted, socketRef, isAtBottom, newMessagesIndicator>>
  /\ ConnFrame

\* A reconnection attempt failed (reconnectionAttempts: 5): the manager
\* counts it and, once the count is used up, stops.
ReconnectError ==
  /\ mounted
  /\ sockets[socketRef].status = "reconnecting"
  /\ MayRetry(sockets[socketRef])
  /\ LET tried == [sockets[socketRef] EXCEPT !.attempts = @ + 1]
     IN  sockets' = [sockets EXCEPT ![socketRef] =
                       [tried EXCEPT !.status = IF MayRetry(tried)
                                                THEN "reconnecting"
                                                ELSE "failed"]]
  /\ emitted' = <<>>
  /\ lastOp' = [op |-> "reconnect_error", id |-> Null, sym |-> Null]
  /\ UNCHANGED <<room, mounted, socketRef, socketConnected, isAtBottom,
                 newMessagesIndicator, lastEmit>>
  /\ ConnFrame

\* A cleanup that leaves the socket as it is.
CleanupLeaksSocket(socks, i) == socks

\* return () => { socket.disconnect(); }: the socket is closed and its manager
\* stops reconnecting and resets its count of attempts.
Cleanup(socks, i) ==
  [socks EXCEPT ![i].status = "closed", ![i].attempts = 0]

\* socket.disconnect() on a connected socket fires its disconnect handler,
\* which calls setSocketConnected(false).
StatusAfterCleanup ==
  IF sockets[socketRef].status = "connected" THEN FALSE ELSE socketConnected

\* The socket effect runs again (dependencies [room, userName, isAtBottom]):
\* the cleanup of the previous run, then io(...) and socketRef.current = socket.
RunEffectAgain(r, atBottom) ==
  /\ Len(sockets) < MaxSockets
  /\ sockets' = Append(Cleanup(sockets, socketRef),
                       [NewSocket(r) EXCEPT !.atBottom = atBottom])
  /\ socketRef' = Len(sockets) + 1
  /\ socketConnected' = StatusAfterCleanup

\* The router shows another room: ChatBox stays mounted with a new room prop.
ChangeRoom(r) ==
  /\ mounted
  /\ r # room
  /\ room' = r
  /\ RunEffectAgain(r, isAtBottom)
  /\ Rerender
  /\ emitted' = <<>>
  /\ lastOp' = [op |-> "room-change", id |-> r, sym |-> Null]
  /\ UNCHANGED <<mounted, isAtBottom, newMessagesIndicator>>
  /\ ConnFrame

\* handleScroll: setIsAtBottom(isBottom); if (isBottom && newMessagesIndicator)
\* setNewMessagesIndicator(false).  A change of isAtBottom runs the socket
\* effect again and, at the bottom, the effect that calls scrollToBottom.
handleScroll(isBottom) ==
  /\ mounted
  /\ isAtBottom' = isBottom
  /\ newMessagesIndicator' = IF isBottom THEN FALSE ELSE newMessagesIndicator
  /\ IF isBottom # isAtBottom
     THEN RunEffectAgain(room, isBottom)
     ELSE UNCHANGED <<sockets, socketRef, socketConnected>>
  /\ scrollToBottomTimeout' =
       IF isBottom /\ ~isAtBottom THEN TRUE ELSE scrollToBottomTimeout
  /\ RerenderIf(isBottom # isAtBottom \/ newMessagesIndicator' # newMessagesIndicator)
  /\ emitted' = <<>>
  /\ lastOp' = [op |-> "scroll", id |-> Null, sym |-> Null]
  /\ peerEmitted' = <<>>
  /\ UNCHANGED <<room, mounted, messages, replyingTo, now>>
  /\ UNCHANGED <<inputVars, snapshot, arrived, peerMessages, processed,
                 peerProcessed>>
  /\ UNCHANGED <<activeUsers, typingUsers, userListPayload, typingPayload,
                 typingAt, lastTypingAt, uploadVars, serverVars>>

\* ChatBox unmounts, and MessageInput with it: the cleanups of the socket
\* effect and of MessageInput run; the state updates of an unmounted component
\* are dropped.
Unmount ==
  /\ mounted
  /\ mounted' = FALSE
  /\ sockets' = Cleanup(sockets, socketRef)
  /\ unmountCleanup
  /\ emitted' = <<>>
  /\ lastOp' = [op |-> "unmount", id |-> Null, sym |-> Null]
  /\ peerEmitted' = <<>>
  /\ UNCHANGED <<room, socketRef, socketConnected, isAtBottom,
                 newMessagesIndicator, lastEmit>>
  /\ UNCHANGED <<messages, replyingTo, scrollToBottomTimeout, now>>
  /\ UNCHANGED <<snapshot, arrived, peerMessages, processed, peerProcessed>>
  /\ UNCHANGED <<activeUsers, typingUsers, userListPayload, typingPayload,
                 typingAt, lastTypingAt>>

\* The cleanup of a run of the effect invoked once more, on the socket it has
\* already closed.
CleanupAgain(i) ==
  /\ sockets[i].status = "closed"
  /\ sockets' = Cleanup(sockets, i)
  /\ emitted' = <<>>
  /\ lastOp' = [op |-> "cleanup-again", id |-> Null, sym |-> Null]
  /\ UNCHANGED <<room, mounted, socketRef, socketConnected, isAtBottom,
                 newMessagesIndicator, lastEmit>>
  /\ ConnFrame

------------------------------------------------------------------------------
\* Presence and typing (socket handlers of ChatBox), and the clock.

\* The users of the room and the user-list payloads the server sends.
bob == [userName |-> "bob", status |-> "online"]
amy == [userName |-> "amy", status |-> "typing"]
UserLists == {<<>>, <<bob>>, <<bob, amy>>, <<amy, bob>>}

\* A handler that keeps the list it already has.
OnUserListKeepFirst(prev, users) == IF prev = <<>> THEN users ELSE prev

\* setActiveUsers(users)
OnUserList(prev, users) == users

\* The socket of the current run of the effect is connected.
SocketOpen == mounted /\ sockets[socketRef].status = "connected"

\* socket.on("user-list", (users) => setActiveUsers(users))
UserList(users) ==
  /\ SocketOpen
  /\ activeUsers' = OnUserList(activeUsers, users)
  /\ userListPayload' = users
  /\ Rerender
  /\ emitted' = <<>>
  /\ lastOp' = [op |-> "user-list", id |-> Null, sym |-> Null]
  /\ peerEmitted' = <<>>
  /\ UNCHANGED <<messages, replyingTo, isAtBottom, newMessagesIndicator,
                 scrollToBottomTimeout, socketRef, now>>
  /\ UNCHANGED <<inputVars, snapshot, arrived, peerMessages, processed,
                 peerProcessed>>
  /\ UNCHANGED <<room, mounted, socketConnected, sockets, typingUsers,
                 typingPayload, typingAt, lastTypingAt, uploadVars, serverVars>>

\* The payloads of a typing event: an array of user names, or a value that
\* is no array (null, an object).
TypingPayloads ==
  {[type |-> "array", items |-> l] :
     l \in {<<>>, <<"amy">>, <<"bob">>, <<"bob", "amy">>, <<"amy", "bob">>}}
    \cup {[type |-> "null", items |-> <<>>],
          [type |-> "object", items |-> <<"amy">>]}

\* Array.isArray(typingUsersList)
IsArray(p) == p.type = "array"

\* A handler that does not filter the local user out.
OnTypingKeepsSelf(prev, p) == IF IsArray(p) THEN p.items ELSE prev

\* if (Array.isArray(l)) setTypingUsers(l.filter((u) => u !== userName))
OnTyping(prev, p) ==
  IF IsArray(p) THEN SelectSeq(p.items, LAMBDA u : u # userName) ELSE prev

\* socket.on("typing", (typingUsersList) => { ... })
Typing(p) ==
  /\ SocketOpen
  /\ typingUsers' = OnTyping(typingUsers, p)
  /\ typingPayload' = p
  /\ typingAt' = now
  /\ RerenderIf(IsArray(p))
  /\ emitted' = <<>>
  /\ lastOp' = [op |-> "typing", id |-> Null, sym |-> Null]
  /\ peerEmitted' = <<>>
  /\ UNCHANGED <<messages, replyingTo, isAtBottom, newMessagesIndicator,
                 scrollToBottomTimeout, socketRef, now>>
  /\ UNCHANGED <<inputVars, snapshot, arrived, peerMessages, processed,
                 peerProcessed>>
  /\ UNCHANGED <<room, mounted, socketConnected, sockets, activeUsers,
                 userListPayload, lastTypingAt, uploadVars, serverVars>>

\* The clock advances in steps of half a typing window, MaxTicks times.
MaxTicks == 4
TickMs == TypingWindow \div 2

\* Time passes.  Of the timers of ChatBox, the 100 ms timer of
\* scrollToBottom is the one that writes state of this model: when pending
\* it fires and calls setNewMessagesIndicator(false).
Tick ==
  /\ now < StartTime + MaxTicks * TickMs
  /\ now' = now + TickMs
  /\ scrollToBottomTimeout' = FALSE
  /\ newMessagesIndicator' =
       IF scrollToBottomTimeout THEN FALSE ELSE newMessagesIndicator
  /\ RerenderIf(newMessagesIndicator' # newMessagesIndicator)
  /\ emitted' = <<>>
  /\ lastOp' = [op |-> "tick", id |-> Null, sym |-> Null]
  /\ peerEmitted' = <<>>
  /\ UNCHANGED <<messages, replyingTo, isAtBottom, socketRef>>
  /\ UNCHANGED <<inputVars, snapshot, arrived, peerMessages, processed,
                 peerProcessed>>
  /\ UNCHANGED <<sessionVars, lastTypingAt, uploadVars, serverVars>>

------------------------------------------------------------------------------
\* The relay server (pages/api/socket.ts).

\* The sockets connected to the server and the send-message events it handles
\* in one run.
Clients == {"c1", "c2"}
MaxRelay == 2

\* The payloads of join-room: the object { room, userName } the connect
\* handler of ChatBox emits, and the bare room name an earlier client sent.
JoinPayloads ==
  {[type |-> "object", room |-> e.room, userName |-> e.userName] :
     e \in {JoinOnConnect(NewSocket(r))[1] : r \in Rooms}}
    \cup {[type |-> "string", room |-> r, userName |-> ""] : r \in Rooms}

\* The room a value names in the adapter's Map of rooms: a string names the
\* room of that name, an object is a key of its own, equal to no string and
\* to no object decoded from another packet.
RoomKey(payload, sid) ==
  IF payload.type = "string"
  THEN [type |-> "string", name |-> payload.room, of |-> ""]
  ELSE [type |-> "object", name |-> "", of |-> sid]

\* The message of a send-message event, as sendMessage of ChatBox builds it.
RelayMessage ==
  [text |-> <<"h">>, replyTo |-> Null, imageUrl |-> Undefined,
   videoUrl |-> Undefined]

\* What the server's handlers leave alone: every client.
ServerFrame ==
  /\ emitted' = <<>>
  /\ peerEmitted' = <<>>
  /\ UNCHANGED <<chatVars, inputVars, snapshot, arrived, peerMessages,
                 processed, peerProcessed, sessionVars, lastTypingAt,
                 uploadVars>>

\* socket.on("join-room", (room) => { socket.join(room); ... })
ServerJoinRoom(sid, payload) ==
  /\ serverRooms' = [serverRooms EXCEPT ![sid] = @ \cup {RoomKey(payload, sid)}]
  /\ joinedAs' = [joinedAs EXCEPT ![sid] =
                    IF payload.type = "object" THEN @ \cup {payload.room}
                    ELSE @]
  /\ lastOp' = [op |-> "server join-room", id |-> sid, sym |-> Null]
  /\ UNCHANGED <<delivered, relayed>>
  /\ ServerFrame

\* The sockets io.to(r) addresses: those socket.join has put in the room r.
RoomMembers(r) ==
  {c \in Clients : [type |-> "string", name |-> r, of |-> ""] \in serverRooms[c]}

\* socket.on("send-message", ({ room, message }) => {
\*   io.to(room).emit("receive-message", message) })
ServerSendMessage(sid, r, msg) ==
  /\ Len(relayed) < MaxRelay
  /\ delivered' = [c \in Clients |->
                     IF c \in RoomMembers(r) THEN Append(delivered[c], msg)
                     ELSE delivered[c]]
  /\ relayed' = Append(relayed, [from |-> sid, room |-> r, message |-> msg])
  /\ lastOp' = [op |-> "server send-message", id |-> sid, sym |-> r]
  /\ UNCHANGED <<serverRooms, joinedAs>>
  /\ ServerFrame

\* socket.on("disconnect", ...): the handler only logs; socket.io takes the
\* socket out of its rooms.
ServerDisconnect(sid) ==
  /\ serverRooms[sid] # {}
  /\ serverRooms' = [serverRooms EXCEPT ![sid] = {}]
  /\ joinedAs' = [joinedAs EXCEPT ![sid] = {}]
  /\ lastOp' = [op |-> "server disconnect", id |-> sid, sym |-> Null]
  /\ UNCHANGED <<delivered, relayed>>
  /\ ServerFrame

------------------------------------------------------------------------------
\* The state after ChatBox and MessageInput are mounted and the socket
\* effect has run.
InitChat ==
  /\ replyingTo = None
  /\ isAtBottom = TRUE
  /\ newMessagesIndicator = FALSE
  /\ scrollToBottomTimeout = TRUE
  /\ socketRef = 1
  /\ lastEmit = 0
  /\ now = StartTime

InitInput ==
  /\ message = <<>>
  /\ imageUrl = Null
  /\ videoUrl = Null
  /\ error = Null
  /\ previewUrl = Null
  /\ previewKind = Null
  /\ previewUrlRef = Null

InitHist ==
  /\ emitted = <<>>
  /\ lastOp = [op |-> "mount", id |-> Null, sym |-> Null]
  /\ snapshot = <<>>
  /\ arrived = <<>>

InitPeer ==
  /\ peerMessages = <<>>
  /\ peerEmitted = <<>>
  /\ processed = EmptyBag
  /\ peerProcessed = EmptyBag

\* The session once the socket has connected and joined the room.
InitSession ==
  /\ room = "alpha"
  /\ mounted = TRUE
  /\ socketConnected = TRUE
  /\ sockets = <<[NewSocket("alpha") EXCEPT !.status = "connected"]>>
  /\ activeUsers = <<>>
  /\ typingUsers = <<>>
  /\ userListPayload = <<>>
  /\ typingPayload = [type |-> "array", items |-> <<>>]
  /\ typingAt = 0
  /\ lastTypingAt = 0

\* The server has started and no socket has joined a room.
InitServer ==
  /\ serverRooms = [c \in Clients |-> {}]
  /\ delivered = [c \in Clients |-> <<>>]
  /\ joinedAs = [c \in Clients |-> {}]
  /\ relayed = <<>>

\* No file has been selected.
InitUpload ==
  /\ uploading = FALSE
  /\ uploadProgress = 0
  /\ xhrRef = 0
  /\ xhrs = <<>>
  /\ objectUrls = EmptyObject
  /\ cloudinary = TRUE
  /\ file = NoFile

Init ==
  /\ messages = <<>>
  /\ InitChat /\ InitInput /\ InitHist /\ InitPeer /\ InitSession /\ InitUpload
  /\ InitServer

\* The message store under every sequence of inbound events and reactions.
Next ==
  \/ \E msgs \in Snapshots : RecentMessages(msgs)
  \/ \E msg \in ServerMessages : ReceiveMessage(msg)
  \/ \E id \in ReactionIds, s \in Symbols : MessageReaction(id, s)
  \/ \E id \in ReactionIds, s \in Symbols : reactToMessage(id, s)

Spec == Init /\ [][Next]_vars

\* The composer at rest: nothing attached, an upload that ended with status
\* 200 (xhr.onload sets imageUrl or videoUrl and clears the preview), or an
\* upload that failed (handleUploadError sets error and clears the preview).
ComposerAtRest ==
  {[imageUrl |-> Null, videoUrl |-> Null, error |-> Null],
   [imageUrl |-> "img.url", videoUrl |-> Null, error |-> Null],
   [imageUrl |-> Null, videoUrl |-> "vid.url", error |-> Null],
   [imageUrl |-> Null, videoUrl |-> Null, error |-> "Upload failed"]}

InitSend ==
  /\ messages = <<>>
  /\ InitChat /\ InitHist /\ InitPeer /\ InitSession /\ InitUpload /\ InitServer
  /\ message = <<>>
  /\ previewUrl = Null
  /\ previewKind = Null
  /\ previewUrlRef = Null
  /\ \E c \in ComposerAtRest :
       /\ imageUrl = c.imageUrl
       /\ videoUrl = c.videoUrl
       /\ error = c.error

\* Typing, replying and sending, with the join replay and the server's echoes.
NextSend ==
  \/ \E value \in Texts : handleChange(value)
  \/ handleSend
  \/ \E i \in 1..Len(messages) : handleReply(messages[i])
  \/ clearReply
  \/ RecentMessages(<<>>)
  \/ \E msg \in ServerMessages : Len(messages) < MaxEcho /\ ReceiveMessage(msg)

SpecSend == InitSend /\ [][NextSend]_vars

\* Two clients that hold the same replayed log and process reaction events,
\* each in its own order, while either may call reactToMessage.
InitConverge ==
  /\ InitChat /\ InitInput /\ InitSession /\ InitUpload /\ InitServer
  /\ \E msgs \in Snapshots :
       /\ messages = msgs
       /\ peerMessages = msgs
       /\ snapshot = msgs
  /\ emitted = <<>>
  /\ peerEmitted = <<>>
  /\ lastOp = [op |-> "recent-messages", id |-> Null, sym |-> Null]
  /\ arrived = <<>>
  /\ processed = EmptyBag
  /\ peerProcessed = EmptyBag

NextConverge ==
  \/ \E id \in ReactionIds, s \in Symbols : MessageReaction(id, s)
  \/ \E id \in ReactionIds, s \in Symbols : PeerMessageReaction(id, s)
  \/ \E id \in ReactionIds, s \in Symbols : reactToMessage(id, s)
  \/ \E id \in ReactionIds, s \in Symbols : PeerReactToMessage(id, s)

SpecConverge == InitConverge /\ [][NextConverge]_vars

\* ChatBox has mounted and the socket effect has run once: the socket is
\* opening and no event has arrived.
InitConn ==
  /\ messages = <<>>
  /\ InitChat /\ InitInput /\ InitHist /\ InitPeer /\ InitUpload /\ InitServer
  /\ room = "alpha"
  /\ mounted = TRUE
  /\ socketConnected = FALSE
  /\ sockets = <<NewSocket("alpha")>>
  /\ activeUsers = <<>>
  /\ typingUsers = <<>>
  /\ userListPayload = <<>>
  /\ typingPayload = [type |-> "array", items |-> <<>>]
  /\ typingAt = 0
  /\ lastTypingAt = 0

\* The life of the connection: connects, failures, reconnection attempts and
\* teardowns, with the events a connected socket delivers.
NextConn ==
  \/ Connect
  \/ ConnectError
  \/ \E reason \in DisconnectReasons : Disconnect(reason)
  \/ ReconnectError
  \/ \E r \in Rooms : ChangeRoom(r)
  \/ \E isBottom \in BOOLEAN : handleScroll(isBottom)
  \/ Unmount
  \/ \E i \in 1..Len(sockets) : CleanupAgain(i)
  \/ \E users \in UserLists : UserList(users)
  \/ SocketOpen /\ Len(messages) < MaxEcho /\ ReceiveMessage(m1)

SpecConn == InitConn /\ [][NextConn]_vars

\* The keystrokes of the typing specification: a character typed, then deleted.
Keystrokes == {<<>>, <<"h">>}

\* Typing while time passes and the room's events arrive.
NextTyping ==
  \/ \E value \in Keystrokes : handleChange(value)
  \/ Tick
  \/ \E p \in TypingPayloads : Typing(p)
  \/ UserList(<<bob, amy>>)
  \/ Len(messages) < MaxEcho /\ ReceiveMessage(m1)

SpecTyping == Init /\ [][NextTyping]_vars

\* The composer with no file selected; the deployment may lack the two
\* Cloudinary variables.
InitUploading ==
  /\ messages = <<>>
  /\ InitChat /\ InitInput /\ InitHist /\ InitPeer /\ InitSession /\ InitServer
  /\ uploading = FALSE
  /\ uploadProgress = 0
  /\ xhrRef = 0
  /\ xhrs = <<>>
  /\ objectUrls = EmptyObject
  /\ cloudinary \in BOOLEAN
  /\ file = NoFile

\* Selecting, dropping and pasting files, the events of their requests,
\* cancelling and sending.
NextUpload ==
  \/ \E f \in Files : selectFile(f)
  \/ \E f \in Files : handleDrop(f)
  \/ \E f \in Files : handlePaste(f)
  \/ \E i \in 1..Len(xhrs), pct \in Percents : xhrProgress(i, pct)
  \/ \E i \in 1..Len(xhrs), status \in Statuses, body \in Bodies :
       xhrLoad(i, status, body)
  \/ \E i \in 1..Len(xhrs) : xhrError(i)
  \/ cancelUpload
  \/ ~uploading /\ handleSend

SpecUpload == InitUploading /\ [][NextUpload]_vars

\* The server with its sockets joining rooms, sending and disconnecting.
NextRelay ==
  \/ \E c \in Clients, payload \in JoinPayloads : ServerJoinRoom(c, payload)
  \/ \E c \in Clients, r \in Rooms : ServerSendMessage(c, r, RelayMessage)
  \/ \E c \in Clients : ServerDisconnect(c)

SpecRelay == Init /\ [][NextRelay]_vars

------------------------------------------------------------------------------
\* Properties of the room session.

\* The displayed counters of a log.
Ids(log) == {log[i].id : i \in 1..Len(log)}

FirstWithId(log, id) ==
  log[CHOOSE i \in 1..Len(log) :
        log[i].id = id /\ \A j \in 1..(i - 1) : log[j].id # id]

DisplayedCount(log, id, s) == Count(FirstWithId(log, id), s)

\* The received message as the log holds it: its reactions set to {}.
AsLogged(msg) == [msg EXCEPT !.reactions = Some(EmptyObject)]

\* C1: after a recent-messages event the log is exactly the payload, whatever
\* it held before; replay [m1, m2] followed by receive-message(m3) gives
\* [m1, m2, m3].
C1_ReplayReplacesLog ==
  /\ lastOp.op = "recent-messages" => messages = snapshot
  /\ (snapshot = <<m1, m2>> /\ arrived = <<m3>> /\ processed = EmptyBag)
       => messages = <<m1, m2, m3>>

C1_Witness ==
  /\ lastOp.op = "recent-messages"
  /\ snapshot = <<m1>>
  /\ messages = <<m1>>

\* C2, as stated: the length of the log equals the number of receive-message
\* events since the last replay, and the log is those events in order.
C2_LengthIsArrivalsOnly ==
  /\ Len(messages) = Len(arrived)
  /\ \A i \in 1..Len(messages) : messages[i].id = arrived[i].id

\* C2, amended: the log is the last replayed snapshot followed by one entry
\* per receive-message event since, in arrival order, nothing dropped,
\* reordered or deduplicated.
C2_LogIsSnapshotThenArrivals ==
  /\ Len(messages) = Len(snapshot) + Len(arrived)
  /\ \A i \in 1..Len(snapshot) : messages[i].id = snapshot[i].id
  /\ \A i \in 1..Len(arrived) :
       [messages[Len(snapshot) + i] EXCEPT !.reactions = Some(EmptyObject)]
         = AsLogged(arrived[i])

C2_Witness ==
  /\ Len(snapshot) = 2
  /\ Len(arrived) = 1
  /\ lastOp.op = "receive-message"

C7_OrphanReactionIsDropped ==
  [][(lastOp'.op = "message-reaction" /\ lastOp'.id \notin Ids(messages))
       => messages' = messages]_vars

C7_Witness ==
  /\ lastOp.op = "message-reaction"
  /\ lastOp.id \notin Ids(messages)
  /\ messages # <<>>

\* C8, as stated: for every message id and symbol the displayed count is
\* never negative and never lower in the next state, whatever event is
\* processed, a recent-messages replay included.
C8_CountsNeverDecrease ==
  [][/\ \A i \in 1..Len(messages') : \A s \in Symbols :
          Count(messages'[i], s) >= 0
     /\ \A id \in Ids(messages) \cap Ids(messages') : \A s \in Symbols :
          DisplayedCount(messages', id, s) >= DisplayedCount(messages, id, s)
    ]_vars

\* C8, amended: a count is never negative, and no step other than a
\* recent-messages replay lowers the count of any entry of the log or
\* changes the id of an entry.
C8_CountsNeverDecreaseBetweenReplays ==
  [][/\ \A i \in 1..Len(messages') : \A s \in Symbols :
          Count(messages'[i], s) >= 0
     /\ lastOp'.op # "recent-messages" =>
          /\ Len(messages') >= Len(messages)
          /\ \A i \in 1..Len(messages) :
               /\ messages'[i].id = messages[i].id
               /\ \A s \in Symbols :
                    Count(messages'[i], s) >= Count(messages[i], s)
    ]_vars

C8_Witness ==
  /\ lastOp.op = "message-reaction"
  /\ \E i \in 1..Len(messages) :
       /\ messages[i].id = lastOp.id
       /\ Count(messages[i], lastOp.sym) = 2
       /\ \E s \in Symbols \ {lastOp.sym} : Count(messages[i], s) = 0

\* C10: the ids of the entries of the log are pairwise distinct.
C10_IdsPairwiseDistinct ==
  \A i, j \in 1..Len(messages) : messages[i].id = messages[j].id => i = j

\* C3: sendMessage emits exactly one send-message {room, message: {text,
\* replyTo, imageUrl, videoUrl}} and leaves the log unchanged; the log changes
\* only when an inbound event is processed, and the echo appends the message.
C3_SendIsNotOptimistic ==
  [][/\ (lastOp'.op = "handleSend" /\ emitted' # <<>>) =>
          /\ messages' = messages
          /\ emitted' =
               <<[event |-> "send-message", room |-> room,
                  message |-> [text |-> Trim(message),
                               replyTo |-> ReplyToId(replyingTo),
                               imageUrl |-> OrUndefined(imageUrl),
                               videoUrl |-> OrUndefined(videoUrl)]]>>
     /\ messages' # messages =>
          lastOp'.op \in {"receive-message", "recent-messages"}
     /\ lastOp'.op = "receive-message" =>
          messages' = Append(messages, AsLogged(arrived'[Len(arrived')]))
    ]_vars

C3_Witness ==
  /\ lastOp.op = "handleSend"
  /\ Len(emitted) = 1
  /\ emitted[1].message.text = <<"h">>
  /\ messages = <<>>

\* C4: a send with blank text and no attachment emits nothing and leaves the
\* text, the attachment and the reply target as they were; every other send
\* emits exactly one send-message that carries the trimmed text.
C4_BlankSendIsRejected ==
  [][lastOp'.op = "handleSend" =>
       IF Trim(message) = <<>> /\ ~Truthy(imageUrl) /\ ~Truthy(videoUrl)
       THEN /\ emitted' = <<>>
            /\ UNCHANGED <<message, imageUrl, videoUrl, replyingTo>>
       ELSE /\ Len(emitted') = 1
            /\ emitted'[1].event = "send-message"
            /\ emitted'[1].message.text = Trim(message)
    ]_vars

C4_Witness ==
  /\ lastOp.op = "handleSend"
  /\ emitted = <<>>
  /\ message = <<" ">>
  /\ replyingTo # None

\* C5: a send carries the id of the selected reply target, or null when none
\* is selected, and clears the target; selecting and clearing emit nothing.
C5_ReplyTargetIsOneShot ==
  [][/\ (lastOp'.op = "handleSend" /\ emitted' # <<>>) =>
          /\ emitted'[1].message.replyTo =
               (IF replyingTo = None THEN Null
                ELSE (CHOOSE m \in replyingTo : TRUE).id)
          /\ replyingTo' = None
     /\ lastOp'.op = "handleReply" =>
          /\ emitted' = <<>>
          /\ \E m \in replyingTo' : m.id = lastOp'.id
     /\ lastOp'.op = "clearReply" => (emitted' = <<>> /\ replyingTo' = None)
     /\ replyingTo' # replyingTo =>
          lastOp'.op \in {"handleSend", "handleReply", "clearReply"}
    ]_vars

C5_Witness ==
  /\ lastOp.op = "handleSend"
  /\ Len(emitted) = 1
  /\ emitted[1].message.replyTo = "1"
  /\ replyingTo = None

\* C9: two clients that hold the same messages and have processed the same
\* message-reaction events, each in its own order and between its own react
\* calls, hold equal logs, hence equal counts for every message and symbol.
C9_SameEventsSameCounts ==
  processed = peerProcessed => messages = peerMessages

C9_Witness ==
  /\ processed = peerProcessed
  /\ BagCardinality(processed) = 2
  /\ messages # snapshot
  /\ lastOp.op = "peer-reactToMessage"

\* C11: every connect event, the first connection and each reconnection
\* alike, sets the status to connected and emits exactly one join-room
\* {room, userName} for the current room and user; the status and a socket
\* become connected only by a connect event, so no connected period exists
\* without its join request.
C11_ConnectJoinsRoom ==
  [][/\ lastOp'.op = "connect" =>
          /\ socketConnected' = TRUE
          /\ emitted' = <<[event |-> "join-room", room |-> room',
                           userName |-> userName]>>
     /\ (socketConnected' /\ ~socketConnected) => lastOp'.op = "connect"
     /\ \A i \in 1..Len(sockets) :
          (sockets'[i].status = "connected" /\ sockets[i].status # "connected")
            => (lastOp'.op = "connect" /\ i = socketRef')
    ]_vars

C11_Witness ==
  /\ lastOp.op = "connect"
  /\ sockets[socketRef].reconnected
  /\ room = "beta"
  /\ socketConnected
  /\ Len(emitted) = 1

C13_TeardownDisconnects ==
  [][/\ (lastOp'.op \in {"unmount", "room-change"} \/ socketRef' # socketRef) =>
          sockets'[socketRef].status = "closed"
     /\ \A i \in 1..Len(sockets) :
          sockets[i].status = "closed" => sockets'[i] = sockets[i]
     /\ \A i \in 1..Len(sockets') :
          (i # socketRef' \/ ~mounted') => sockets'[i].status = "closed"
     /\ lastOp'.op = "cleanup-again" =>
          UNCHANGED <<chatVars, inputVars, sessionVars, uploadVars, serverVars>>
    ]_vars

C13_Witness ==
  /\ lastOp.op = "cleanup-again"
  /\ ~mounted
  /\ Len(sockets) = 2
  /\ \A i \in 1..Len(sockets) : sockets[i].status = "closed"

\* C14: handleTyping called several times within one 1000 ms window emits at
\* most one typing {room}, whatever is processed between the calls: a call
\* that emits comes more than a window after the previous emit.
C14_OneTypingEmitPerWindow ==
  [][(lastOp'.op = "handleChange" /\ emitted' # <<>>) =>
       /\ emitted' = <<[event |-> "typing", room |-> room]>>
       /\ (lastTypingAt = 0 \/ now - lastTypingAt > TypingWindow)
    ]_vars

\* C15: a user of typingUsers for whom no typing event has arrived within the
\* expiry window (here two typing windows) has been removed by the client
\* itself.
C15_StaleTypingUserIsRemoved ==
  now - typingAt >= 2 * TypingWindow => typingUsers = <<>>

\* C16: typingUsers never holds the local userName; a typing event whose
\* payload is a list replaces typingUsers with the list minus the local user,
\* a payload that is no list leaves it unchanged, and nothing else changes it.
C16_TypingUsersExcludeSelf ==
  [][/\ \A i \in 1..Len(typingUsers') : typingUsers'[i] # userName
     /\ lastOp'.op = "typing" =>
          IF typingPayload'.type = "array"
          THEN typingUsers' =
                 SelectSeq(typingPayload'.items, LAMBDA u : u # "bob")
          ELSE typingUsers' = typingUsers
     /\ typingUsers' # typingUsers => lastOp'.op = "typing"
    ]_vars

C16_Witness ==
  /\ lastOp.op = "typing"
  /\ typingPayload = [type |-> "array", items |-> <<"bob", "amy">>]
  /\ typingUsers = <<"amy">>

\* C17: a user-list event replaces activeUsers with exactly the list it
\* carries, and no other event changes activeUsers.
C17_UserListReplacesPresence ==
  [][/\ lastOp'.op = "user-list" => activeUsers' = userListPayload'
     /\ activeUsers' # activeUsers => lastOp'.op = "user-list"
    ]_vars

C17_Witness ==
  /\ lastOp.op = "user-list"
  /\ userListPayload = <<amy, bob>>
  /\ activeUsers = <<amy, bob>>
  /\ sockets[socketRef].reconnected

\* C18: a file is accepted exactly when its type is in the allow-list of its
\* kind (video when the type starts with "video/", image otherwise) and its
\* size is at most the ceiling of that kind (20 MB image, 50 MB video).  An
\* accepted file gets a preview and, when the upload service is configured,
\* one request; a rejected file (a 25 MB PNG, say) sets the failure reason in
\* the same step and creates no preview, releases none and sends no request.
C18_RejectedFileStartsNothing ==
  [][lastOp'.op \in {"selectFile", "handleDrop", "handlePaste"} =>
       LET f == file'
           accepted ==
             IF f.type.major = "video"
             THEN /\ f.type \in VALID_VIDEO_MIME_TYPES
                  /\ f.size <= 50 * 1024 * 1024
             ELSE /\ f.type \in VALID_MIME_TYPES
                  /\ f.size <= 20 * 1024 * 1024
       IN  /\ f = File(Mime("image", "png"), 25 * 1024 * 1024) => ~accepted
           /\ IF accepted
              THEN /\ DOMAIN objectUrls' # DOMAIN objectUrls
                   /\ Len(xhrs') = Len(xhrs) + (IF cloudinary THEN 1 ELSE 0)
                   /\ uploading' = cloudinary
              ELSE /\ error' # Null
                   /\ xhrs' = xhrs
                   /\ objectUrls' = objectUrls
                   /\ UNCHANGED <<previewUrl, previewKind, previewUrlRef,
                                  uploading, uploadProgress, xhrRef, imageUrl,
                                  videoUrl>>
    ]_vars

C18_Witness ==
  /\ lastOp.op = "handleDrop"
  /\ file = File(Mime("image", "png"), 25 * MB)
  /\ error = "File size exceeds limit (max 20MB)"
  /\ previewUrl = Null
  /\ xhrs = <<>>
  /\ ~uploading

\* C19: cancelling brings the composer to idle (not uploading, no preview, no
\* attachment URL, no error); a request in flight is aborted; the preview
\* that was held is released exactly once although the abort handler runs
\* within the cancel, and no other preview is released; a cancel that
\* follows a cancel changes nothing.
C19_CancelReturnsToIdle ==
  [][lastOp'.op = "cancelUpload" =>
       /\ ~uploading'
       /\ previewUrl' = Null /\ previewKind' = Null /\ previewUrlRef' = Null
       /\ imageUrl' = Null /\ videoUrl' = Null
       /\ error' = Null
       /\ xhrRef' = 0
       /\ (xhrRef # 0 /\ xhrs[xhrRef].state = "sent") =>
            xhrs'[xhrRef].state = "aborted"
       /\ \A u \in DOMAIN objectUrls :
            objectUrls'[u] = IF u = previewUrlRef THEN 1 ELSE objectUrls[u]
       /\ lastOp.op = "cancelUpload" =>
            UNCHANGED <<inputVars, uploading, uploadProgress, xhrRef, xhrs,
                        objectUrls>>
    ]_vars

C19_Witness ==
  /\ lastOp.op = "cancelUpload"
  /\ ~uploading
  /\ error = Null
  /\ Len(xhrs) = 1
  /\ xhrs[1].state = "aborted"
  /\ objectUrls[xhrs[1].preview] = 1

\* C20: at most one request is in flight for a composer.
C20_OneTransferInFlight ==
  Cardinality({i \in 1..Len(xhrs) : xhrs[i].state = "sent"}) <= 1

------------------------------------------------------------------------------
\* Properties of the outcome of an upload.

\* A transfer is in flight.
InFlight == \E i \in 1..Len(xhrs) : xhrs[i].state = "sent"

\* The composer holds the URL of an uploaded attachment.
HasResultUrl ==
  \/ imageUrl \notin {Null, Undefined}
  \/ videoUrl \notin {Null, Undefined}

\* C21: whenever the composer is at rest after a selection (no transfer in
\* flight, not uploading), a result URL and a failure reason are never
\* present together.
C21_ResultOrReasonNotBoth ==
  (~InFlight /\ ~uploading) => ~(HasResultUrl /\ error # Null)
\* C22: a transfer that ends with a network error or with a response whose
\* status is not 200 ends failed: a reason is set, uploading is false, the
\* preview of the transfer is released and no longer shown, and no attachment
\* URL is set by that transfer.
C22_FailedTransferEndsFailed ==
  [][\A i \in 1..Len(xhrs) :
       ( /\ xhrs[i].state = "sent"
         /\ \/ xhrs'[i].state = "error"
            \/ xhrs'[i].state = "done" /\ xhrs'[i].status # 200 )
       => /\ error' \in {"Upload failed", "Network error during upload"}
          /\ ~uploading'
          /\ objectUrls'[xhrs[i].preview] >= 1
          /\ previewUrl' = Null
          /\ previewUrlRef' = Null
          /\ imageUrl' = imageUrl
          /\ videoUrl' = videoUrl]_vars

\* A response with status 500 has ended a transfer: the composer shows the
\* reason and the preview of the transfer is released.
C22_Witness ==
  \E i \in 1..Len(xhrs) :
    /\ xhrs[i].state = "done"
    /\ xhrs[i].status = 500
    /\ lastOp.op = "xhr.onload"
    /\ error = "Upload failed"
    /\ ~uploading
    /\ objectUrls[xhrs[i].preview] = 1
------------------------------------------------------------------------------
\* Properties of the relay server.

\* C23: once a socket has emitted join-room with the payload
\* { room: R, userName }, every send-message { room: R, message } the server
\* handles is emitted as receive-message(message) to that socket.
C23_RelayReachesJoinedSockets ==
  [][Len(relayed') = Len(relayed) + 1
       => LET ev == relayed'[Len(relayed')]
          IN  \A c \in Clients :
                ev.room \in joinedAs[c]
                  => delivered'[c] = Append(delivered[c], ev.message)]_vars
------------------------------------------------------------------------------
\* Properties of the outgoing typing signal.

\* C24: a typing notification of the composer made when no typing event was
\* emitted within the last 1000 ms (or none at all) emits typing { room } in
\* that same call.
C24_FirstTypingEmitsAtOnce ==
  [][( /\ lastOp'.op = "handleChange"
       /\ socketRef # 0
       /\ (lastTypingAt = 0 \/ now - lastTypingAt > TypingWindow) )
       => /\ emitted' = <<[event |-> "typing", room |-> room]>>
          /\ lastTypingAt' = now]_vars

\* The user has typed again more than 1000 ms after the first typing event,
\* and that keystroke has emitted typing.
C24_Witness ==
  /\ lastOp.op = "handleChange"
  /\ message = <<>>
  /\ now > StartTime + TypingWindow
  /\ lastTypingAt = now
  /\ emitted = <<[event |-> "typing", room |-> room]>>
\* C25: an upload leaves the uploading status with the end of its transfer,
\* whatever the outcome: the composer is uploading only while a transfer is in
\* flight.
C25_UploadingEndsWithTransfer ==
  uploading => InFlight
------------------------------------------------------------------------------
\* Properties of the socket of a room session.

\* C26: while ChatBox stays mounted with the same room, the socket of the
\* session is neither disconnected by the client nor replaced by a new one.
C26_OneSocketPerSession ==
  [][(mounted /\ mounted' /\ room' = room)
       => /\ socketRef' = socketRef
          /\ Len(sockets') = Len(sockets)
          /\ sockets'[socketRef].status = "closed"
               => sockets[socketRef].status = "closed"]_vars
------------------------------------------------------------------------------
\* Frame properties of the message log.

\* A message without its counters.
WithoutReactions(msg) == [msg EXCEPT !.reactions = None]

\* C27: a message-reaction event keeps the length and the order of the log,
\* every message with another id, and every field of the matched message but
\* the counter of its symbol; and no event changes the replyTo of a message
\* that stays in the log.
C27_ReactionChangesOnlyTheCounter ==
  [][ /\ lastOp'.op = "message-reaction"
         => /\ Len(messages') = Len(messages)
            /\ \A i \in 1..Len(messages) :
                 /\ WithoutReactions(messages'[i]) = WithoutReactions(messages[i])
                 /\ messages[i].id # lastOp'.id => messages'[i] = messages[i]
                 /\ \A s \in Symbols \ {lastOp'.sym} :
                      Count(messages'[i], s) = Count(messages[i], s)
      /\ lastOp'.op \in {"message-reaction", "receive-message",
                      "reactToMessage"}
         => /\ Len(messages') >= Len(messages)
            /\ \A i \in 1..Len(messages) :
                 messages'[i].replyTo = messages[i].replyTo
      /\ \A i \in 1..Len(messages), j \in 1..Len(messages') :
           messages'[j].id = messages[i].id
             => messages'[j].replyTo = messages[i].replyTo
    ]_vars

\* A message-reaction event has counted a heart on the reply m2, which still
\* refers to the message it replies to.
C27_Witness ==
  /\ lastOp = [op |-> "message-reaction", id |-> "2", sym |-> "heart"]
  /\ \E i \in 1..Len(messages) :
       /\ messages[i].id = "2"
       /\ messages[i].replyTo = "1"
       /\ Count(messages[i], "heart") = 1
------------------------------------------------------------------------------
\* Properties of the unseen-messages flag.

\* C28: newMessagesIndicator is raised exactly by a receive-message event
\* processed while the view is not at the bottom, the handler reading the
\* scroll position of that moment; a message received at the bottom leaves the
\* flag as it is, and reaching the bottom again clears it.
C28_FlagFollowsScrollPosition ==
  [][LET received == Len(messages') = Len(messages) + 1
     IN  /\ (received /\ ~isAtBottom) => newMessagesIndicator'
         /\ (received /\ isAtBottom)
              => newMessagesIndicator' = newMessagesIndicator
         /\ (~newMessagesIndicator /\ newMessagesIndicator')
              => (received /\ ~isAtBottom)
         /\ (~isAtBottom /\ isAtBottom') => ~newMessagesIndicator'
         /\ mounted' => sockets'[socketRef'].atBottom = isAtBottom'
    ]_vars

\* The user has scrolled up, the socket created by that render has connected,
\* and a message received on it has raised the flag.
C28_Witness ==
  /\ lastOp.op = "receive-message"
  /\ ~isAtBottom
  /\ newMessagesIndicator
  /\ Len(sockets) >= 2
  /\ sockets[socketRef].status = "connected"
------------------------------------------------------------------------------
\* Properties of the preview object URLs.

\* C29: no preview URL created by URL.createObjectURL is released by
\* URL.revokeObjectURL more than once.
C29_PreviewReleasedAtMostOnce ==
  \A u \in DOMAIN objectUrls : objectUrls[u] <= 1
------------------------------------------------------------------------------
\* Properties of the attachment of a message.

\* The request whose response set the attachment URL u, of the kind k.
UploadedAs(u, k) ==
  \E i \in 1..Len(xhrs) :
    /\ xhrs[i].state = "done"
    /\ xhrs[i].status = 200
    /\ xhrs[i].kind = k
    /\ u = SecureUrl(i)

\* At most one attachment URL is set, by an upload of its kind.
OneAttachment ==
  /\ ~(Truthy(imageUrl) /\ Truthy(videoUrl))
  /\ Truthy(imageUrl) => UploadedAs(imageUrl, "image")
  /\ Truthy(videoUrl) => UploadedAs(videoUrl, "video")

\* C30: at most one of imageUrl and videoUrl is set, and the one that is set
\* is the URL of an uploaded file of that kind; a message that is sent carries
\* these URLs, so at most one attachment, and after the send both are unset.
C30_OneAttachmentOfItsKind ==
  [][ /\ OneAttachment'
      /\ (lastOp'.op = "handleSend" /\ emitted' # <<>>)
           => /\ emitted'[1].event = "send-message"
              /\ emitted'[1].message.imageUrl
                   = (IF Truthy(imageUrl) THEN imageUrl ELSE Undefined)
              /\ emitted'[1].message.videoUrl
                   = (IF Truthy(videoUrl) THEN videoUrl ELSE Undefined)
              /\ imageUrl' = Null
              /\ videoUrl' = Null
    ]_vars

\* A message with the video of the second of two uploads has been sent.
C30_Witness ==
  /\ lastOp.op = "handleSend"
  /\ emitted # <<>>
  /\ emitted[1].message.videoUrl = SecureUrl(2)
  /\ emitted[1].message.imageUrl = Undefined
  /\ xhrs[1].kind = "image"
  /\ imageUrl = Null
  /\ videoUrl = Null
====
